---- MODULE Spec2Model ----
(***************************************************************************)
(* A model of splaat.audio.prep.prep_audio (src/splaat/audio/prep.py).     *)
(*                                                                         *)
(* One call of prep_audio is a sequential program: the statements of       *)
(* lines 77-95 are executed one after the other, and pc names the          *)
(* statement about to be executed.  Samples are IEEE floating point        *)
(* numbers; they are modelled as exact rationals <<n, d>> in lowest terms  *)
(* with d > 0, together with the three non-finite values a float division  *)
(* by zero produces (nan, +inf, -inf), written with denominator 0.         *)
(* The print of lines 81-82 (quiet = False) touches nothing the call       *)
(* computes and is left out.                                               *)
(***************************************************************************)
EXTENDS Integers, Sequences, FiniteSets, TLC

(***************************************************************************)
(* The longest waveform a call is given.                                   *)
(***************************************************************************)
MaxLen == 2

Abs(i) == IF i < 0 THEN -i ELSE i

RECURSIVE GCD(_, _)
GCD(a, b) == IF b = 0 THEN a ELSE GCD(b, a % b)

\* The rational n/d (d # 0) in lowest terms, sign carried by the numerator.
Q(n, d) ==
    LET s == IF d < 0 THEN -1 ELSE 1
        g == GCD(Abs(n), Abs(d))
    IN  <<(s * n) \div g, (s * d) \div g>>

I(n) == <<n, 1>>
Zero == I(0)
One == I(1)
Half == <<1, 2>>
NaN == <<0, 0>>
PosInf == <<1, 0>>
NegInf == <<-1, 0>>

IsFinite(a) == a[2] # 0
Sgn(a) == IF a[1] < 0 THEN -1 ELSE IF a[1] > 0 THEN 1 ELSE 0
InfOf(s) == IF s < 0 THEN NegInf ELSE PosInf

\* IEEE-754 negation, addition, multiplication, division and comparison.
Neg(a) == <<-a[1], a[2]>>

Add(a, b) ==
    IF IsFinite(a) /\ IsFinite(b) THEN Q(a[1] * b[2] + b[1] * a[2], a[2] * b[2])
    ELSE IF a = NaN \/ b = NaN THEN NaN
    ELSE IF ~IsFinite(a) /\ ~IsFinite(b) THEN (IF a = b THEN a ELSE NaN)
    ELSE IF IsFinite(a) THEN b ELSE a

Sub(a, b) == Add(a, Neg(b))

Mul(a, b) ==
    IF IsFinite(a) /\ IsFinite(b) THEN Q(a[1] * b[1], a[2] * b[2])
    ELSE IF a = NaN \/ b = NaN \/ Sgn(a) = 0 \/ Sgn(b) = 0 THEN NaN
    ELSE InfOf(Sgn(a) * Sgn(b))

Div(a, b) ==
    IF a = NaN \/ b = NaN THEN NaN
    ELSE IF IsFinite(b) /\ Sgn(b) # 0
         THEN (IF IsFinite(a) THEN Q(a[1] * b[2], a[2] * b[1])
                              ELSE InfOf(Sgn(a) * Sgn(b)))
    ELSE IF IsFinite(b)
         THEN (IF Sgn(a) = 0 THEN NaN ELSE InfOf(Sgn(a)))
    ELSE (IF IsFinite(a) THEN Zero ELSE NaN)

Less(a, b) ==
    IF a = NaN \/ b = NaN THEN FALSE
    ELSE IF IsFinite(a) /\ IsFinite(b) THEN a[1] * b[2] < b[1] * a[2]
    ELSE IF a = b THEN FALSE
    ELSE a = NegInf \/ b = PosInf

Leq(a, b) == a # NaN /\ b # NaN /\ ~Less(b, a)

AbsQ(a) == <<Abs(a[1]), a[2]>>

\* np.max / np.min of a non-empty array: a nan anywhere makes the result nan.
RECURSIVE ArrMax(_)
ArrMax(s) ==
    IF Len(s) = 1 THEN s[1]
    ELSE LET m == ArrMax(Tail(s))
         IN  IF s[1] = NaN \/ m = NaN THEN NaN
             ELSE IF Less(m, s[1]) THEN s[1] ELSE m

RECURSIVE ArrMin(_)
ArrMin(s) ==
    IF Len(s) = 1 THEN s[1]
    ELSE LET m == ArrMin(Tail(s))
         IN  IF s[1] = NaN \/ m = NaN THEN NaN
             ELSE IF Less(s[1], m) THEN s[1] ELSE m


\* -x, a new array.
Negate(x) == [i \in 1..Len(x) |-> Neg(x[i])]

(***************************************************************************)
(* Optional arguments: None is the empty tuple, a given value v is <<v>>.  *)
(***************************************************************************)
None == <<>>
Some(v) == <<v>>
Val(o) == o[1]

(***************************************************************************)
(* Lines 77-84: the resampler.                                             *)
(***************************************************************************)
\* np.gcd(a, b): the greatest common divisor of the absolute values.
NpGcd(a, b) == GCD(Abs(a), Abs(b))

\* Line 84, the arguments up and down handed to resample_poly.  cd divides
\* both rates, so the float divisions are exact.
UpOf(sr, t) == t \div NpGcd(sr, t)
DownOf(sr, t) == sr \div NpGcd(sr, t)

\* scipy.signal.resample_poly raises ValueError('up and down must be >= 1').
RateError == "ValueError: up and down must be >= 1"
ResampleRejects(up, down) == up < 1 \/ down < 1

\* The length of resample_poly's result: ceil(n * up / down), with up/down
\* in lowest terms.
ResampleLen(n, up, down) ==
    LET g == GCD(up, down)
        u == up \div g
        d == down \div g
    IN  ((n * u) \div d) + (IF (n * u) % d # 0 THEN 1 ELSE 0)

\* Lines 77-78: the rate that line 95 returns when none was asked for.
DefaultTarget32k(sr, t) == IF t = None THEN Some(32000) ELSE t
EffectiveTarget(sr, t) == IF t = None THEN Some(sr) ELSE t

\* Line 80: resampling happens only when a different rate is asked for.
ResampleEnabled(sr, t) == t # None /\ Val(t) # sr

(***************************************************************************)
(* Lines 85-86: polarity.                                                  *)
(***************************************************************************)
PolarityFlips(x) == Less(Add(ArrMax(x), ArrMin(x)), Zero)

PolarityAlwaysFlips(x) == Negate(x)
PolarityNormalize(x) == IF PolarityFlips(x) THEN Negate(x) ELSE x

(***************************************************************************)
(* Lines 87-88: pre-emphasis.                                              *)
(*                                                                         *)
(* librosa.effects.preemphasis(y, coef) runs scipy.signal.lfilter with     *)
(* b = [1, -coef], a = [1] and the initial filter state                    *)
(* zi = 2*y[0:1] - y[1:2].  lfilter adds zi to the first output sample, so *)
(* out[0] = y[0] + (2*y[0] - y[1]) and out[n] = y[n] - coef*y[n-1] after   *)
(* it.  For a one-sample array y[1:2] is empty, zi has shape (0,) and      *)
(* lfilter raises ValueError('Unexpected shape for zi').                   *)
(***************************************************************************)
PreemphEnabledNoSign(p) == p # None
PreemphEnabled(p) == p # None /\ Less(Zero, Val(p))

ZiError == "ValueError: Unexpected shape for zi"
PreemphRejects(x) == Len(x) < 2

Preemphasis(x, coef) ==
    [i \in 1..Len(x) |->
        IF i = 1 THEN Add(x[1], Sub(Mul(I(2), x[1]), x[2]))
                 ELSE Sub(x[i], Mul(coef, x[i - 1]))]

(***************************************************************************)
(* Lines 89-90: amplitude scaling, audio /= np.max(audio) * scale.         *)
(***************************************************************************)
ScaleByAbsPeak(x, s) ==
    LET d == Mul(ArrMax([i \in 1..Len(x) |-> AbsQ(x[i])]), s)
    IN  [i \in 1..Len(x) |-> Div(x[i], d)]
ScaleBy(x, s) ==
    LET d == Mul(ArrMax(x), s)
    IN  [i \in 1..Len(x) |-> Div(x[i], d)]

(***************************************************************************)
(* Lines 91-92: dither, audio += (np.random.rand(len(audio)) - 0.5)*dither *)
(* r is the array np.random.rand returned, every element in [0, 1).        *)
(***************************************************************************)
DitherBy(x, r, d) == [i \in 1..Len(x) |-> Add(x[i], Mul(Sub(r[i], Half), d))]

(***************************************************************************)
(* Lines 93-94: quantization.                                              *)
(***************************************************************************)
IntTypes == {"int8", "int16", "int32", "int64"}

\* np.iinfo(t).max.  TLC's integers are 32 bits wide, so int64 has no entry
\* and the model draws neither int32 nor int64.
IInfoMaxTwoPow(t) ==
    CASE t = "int8" -> 128 [] t = "int16" -> 32768 [] t = "int32" -> 2147483647
IInfoMax(t) ==
    CASE t = "int8" -> 127 [] t = "int16" -> 32767 [] t = "int32" -> 2147483647

IInfoMin(t) == -IInfoMax(t) - 1

\* np.rint: round to the nearest integer, ties to the even one.
Rint(a) ==
    IF ~IsFinite(a) THEN a
    ELSE LET f == a[1] \div a[2]
             r == a[1] % a[2]
         IN  I(IF 2 * r < a[2] THEN f
               ELSE IF 2 * r > a[2] THEN f + 1
               ELSE IF f % 2 = 0 THEN f ELSE f + 1)

\* ndarray.astype(t) of an integral float.  In range, the value itself.  Out
\* of range or not finite the C cast is undefined: a build either wraps the
\* value modulo the type's width or saturates it, and turns a nan or an
\* infinity into 0 or into the type's minimum.
AsType(v, t) ==
    IF IsFinite(v) /\ IInfoMin(t) <= v[1] /\ v[1] <= IInfoMax(t) THEN {v}
    ELSE IF IsFinite(v)
         THEN LET w == 2 * (IInfoMax(t) + 1)
              IN  {I(((v[1] - IInfoMin(t)) % w) + IInfoMin(t)),
                   I(IF v[1] < 0 THEN IInfoMin(t) ELSE IInfoMax(t))}
    ELSE {I(0), I(IInfoMin(t))}

\* The arrays whose i-th element is drawn from the i-th set of sets.
RECURSIVE Arrays(_)
Arrays(sets) ==
    IF Len(sets) = 0 THEN {<<>>}
    ELSE {<<h>> \o t : h \in Head(sets), t \in Arrays(Tail(sets))}

\* The arrays line 94 can produce from x.
Quantized(x, t) ==
    Arrays([i \in 1..Len(x) |-> AsType(Rint(Mul(I(IInfoMax(t)), x[i])), t)])

(***************************************************************************)
(* The order of the statements of lines 77-95.                             *)
(***************************************************************************)
NextPcScaleFirst(p) ==
    CASE p = "resample" -> "polarity"
      [] p = "polarity" -> "scale"
      [] p = "scale" -> "preemph"
      [] p = "preemph" -> "dither"
      [] p = "dither" -> "quantize"
      [] p = "quantize" -> "return"
      [] p = "return" -> "done"
NextPc(p) ==
    CASE p = "resample" -> "polarity"
      [] p = "polarity" -> "preemph"
      [] p = "preemph" -> "scale"
      [] p = "scale" -> "dither"
      [] p = "dither" -> "quantize"
      [] p = "quantize" -> "return"
      [] p = "return" -> "done"

(***************************************************************************)
(* The inputs of a call.                                                   *)
(***************************************************************************)
Samples == {I(-1), I(0), I(1), I(4)}
Waveforms == UNION {[1..n -> Samples] : n \in 1..MaxLen}
Rates == {0, 3, 4}
Targets == {None} \cup {Some(r) : r \in Rates}
Dithers == {None, Some(One)}
Preemphs == {None, Some(Zero), Some(Half), Some(One), Some(I(6))}
Scales == {None, Some(One)}
OutputTypes == {"float32", "int16"}
\* Values np.random.rand can return, and samples resample_poly can produce.
Draws == {Zero, <<3, 4>>}
ResampleVals == {I(-1), I(1)}

(***************************************************************************)
(* The state of one call.                                                  *)
(*   caller    the samples held by the array object the caller passed      *)
(*   audio     the samples held by the array the local name audio is       *)
(*             bound to                                                    *)
(*   aliased   audio is still bound to the caller's array object           *)
(*   input     the caller's samples when the call was made (history)       *)
(*   target_arg  the target_sample_rate the caller passed (history); the   *)
(*             local name target_sample_rate is re-bound by line 78        *)
(*   trace     one record per statement executed (history)                 *)
(*   outcome   "running", "returned", or the exception raised              *)
(***************************************************************************)
VARIABLES caller, audio, aliased, input, sample_rate, target_arg,
          target_sample_rate, dither, preemph, scale, output_type, pc,
          outcome, trace

args == <<input, sample_rate, target_arg, dither, preemph, scale, output_type>>
vars == <<caller, audio, aliased, input, sample_rate, target_arg,
          target_sample_rate, dither, preemph, scale, output_type, pc,
          outcome, trace>>

Init ==
    /\ input \in Waveforms
    /\ caller = input
    /\ audio = input
    /\ aliased = TRUE
    /\ sample_rate \in Rates
    /\ target_arg \in Targets
    /\ target_sample_rate = target_arg
    /\ dither \in Dithers
    /\ preemph \in Preemphs
    /\ scale \in Scales
    /\ output_type \in OutputTypes
    /\ pc = "resample"
    /\ outcome = "running"
    /\ trace = <<>>

\* The statement at pc is done: audio is bound to an array holding y, which
\* is the caller's own array (written in place, or not touched) iff al.
Advance(ran, y, al) ==
    /\ audio' = y
    /\ aliased' = al
    /\ caller' = IF al THEN y ELSE caller
    /\ trace' = Append(trace, [stage |-> pc, ran |-> ran, in |-> audio, out |-> y])
    /\ pc' = NextPc(pc)
    /\ outcome' = outcome

\* The statement at pc raises e: the call ends without a result.
Raise(e) ==
    /\ pc' = "done"
    /\ outcome' = e
    /\ UNCHANGED <<caller, audio, aliased, trace>>

\* Lines 77-84.
Resample ==
    /\ pc = "resample"
    /\ target_sample_rate' = EffectiveTarget(sample_rate, target_sample_rate)
    /\ IF ResampleEnabled(sample_rate, target_sample_rate)
       THEN LET up == UpOf(sample_rate, Val(target_sample_rate))
                down == DownOf(sample_rate, Val(target_sample_rate))
            IN  IF ResampleRejects(up, down)
                THEN Raise(RateError)
                ELSE \E y \in [1..ResampleLen(Len(audio), up, down) -> ResampleVals] :
                        Advance(TRUE, y, FALSE)
       ELSE Advance(FALSE, audio, aliased)
    /\ UNCHANGED args

\* Lines 85-86: -audio is a new array.
Polarity ==
    /\ pc = "polarity"
    /\ Advance(TRUE, PolarityNormalize(audio), aliased /\ ~PolarityFlips(audio))
    /\ UNCHANGED <<args, target_sample_rate>>

\* Lines 87-88: preemphasis returns a new array.
Preemph ==
    /\ pc = "preemph"
    /\ IF PreemphEnabled(preemph)
       THEN IF PreemphRejects(audio)
            THEN Raise(ZiError)
            ELSE Advance(TRUE, Preemphasis(audio, Val(preemph)), FALSE)
       ELSE Advance(FALSE, audio, aliased)
    /\ UNCHANGED <<args, target_sample_rate>>

\* Lines 89-90: /= writes into the array audio is bound to.
Scale ==
    /\ pc = "scale"
    /\ IF scale # None
       THEN Advance(TRUE, ScaleBy(audio, Val(scale)), aliased)
       ELSE Advance(FALSE, audio, aliased)
    /\ UNCHANGED <<args, target_sample_rate>>

\* Lines 91-92: += writes into the array audio is bound to.
Dither ==
    /\ pc = "dither"
    /\ IF dither # None
       THEN \E r \in [1..Len(audio) -> Draws] :
                Advance(TRUE, DitherBy(audio, r, Val(dither)), aliased)
       ELSE Advance(FALSE, audio, aliased)
    /\ UNCHANGED <<args, target_sample_rate>>

\* Lines 93-94: astype returns a new array.
Quantize ==
    /\ pc = "quantize"
    /\ IF output_type \in IntTypes
       THEN \E q \in Quantized(audio, output_type) : Advance(TRUE, q, FALSE)
       ELSE Advance(FALSE, audio, aliased)
    /\ UNCHANGED <<args, target_sample_rate>>

\* Line 95.
Return ==
    /\ pc = "return"
    /\ pc' = NextPc(pc)
    /\ outcome' = "returned"
    /\ UNCHANGED <<args, target_sample_rate, caller, audio, aliased, trace>>

Next ==
    \/ Resample
    \/ Polarity
    \/ Preemph
    \/ Scale
    \/ Dither
    \/ Quantize
    \/ Return

Spec == Init /\ [][Next]_vars


(***************************************************************************)
(* Vocabulary of the properties.  These are stated on the samples          *)
(* themselves, not through the operators that model the code.              *)
(***************************************************************************)
Returned == pc = "done" /\ outcome = "returned"
InvalidRate == RateError
BadFilterState == ZiError
DivisionByZero == "ZeroDivisionError"

\* The rates satisfy the call's input constraints.
ValidRates == sample_rate > 0 /\ (target_arg = None \/ Val(target_arg) > 0)

StageOrder == <<"resample", "polarity", "preemph", "scale", "dither", "quantize">>
Position(st) ==
    CASE st = "resample" -> 1 [] st = "polarity" -> 2 [] st = "preemph" -> 3
      [] st = "scale" -> 4 [] st = "dither" -> 5 [] st = "quantize" -> 6

\* The trace records of the stage st (none when the call ended before it).
Records(st) == {k \in 1..Len(trace) : trace[k].stage = st}
Ran(st) == \E k \in Records(st) : trace[k].ran

IsMaxAt(x, i) == \A k \in 1..Len(x) : ~Less(x[i], x[k])
IsMinAt(x, j) == \A k \in 1..Len(x) : ~Less(x[k], x[j])
\* max(x) + min(x) of an array of finite samples.
PeakSum(x) ==
    LET i == CHOOSE i \in 1..Len(x) : IsMaxAt(x, i)
        j == CHOOSE j \in 1..Len(x) : IsMinAt(x, j)
    IN  Add(x[i], x[j])
\* The signed maximum sample is exactly m.
SignedMaxIs(x, m) ==
    /\ \E i \in 1..Len(x) : x[i] = m
    /\ \A i \in 1..Len(x) : Leq(x[i], m)
Negated(x, y) ==
    Len(y) = Len(x) /\ \A i \in 1..Len(x) : Add(x[i], y[i]) = Zero
NonSilent(x) == \E i \in 1..Len(x) : x[i] # Zero
Within(x, lo, hi) == \A i \in 1..Len(x) : Leq(lo, x[i]) /\ Leq(x[i], hi)

PreemphOff == preemph = None \/ ~Less(Zero, Val(preemph))

(***************************************************************************)
(* C1: in every call the stages that run do so in the relative order       *)
(* resample, polarity, pre-emphasis, scale, dither, quantize, and none     *)
(* runs twice.                                                             *)
(***************************************************************************)
C1_StageOrder ==
    \A j \in 2..Len(trace) : \A i \in 1..(j - 1) :
        (trace[i].ran /\ trace[j].ran)
            => Position(trace[i].stage) < Position(trace[j].stage)

\* A call that ran all six stages and returned.
C1_Witness ==
    /\ Returned
    /\ \A k \in 1..Len(StageOrder) : Ran(StageOrder[k])

(***************************************************************************)
(* C2: with every optional stage disabled and a positive rate the call     *)
(* returns the input sample for sample, and the input's rate.              *)
(***************************************************************************)
AllDisabled ==
    /\ target_arg = None
    /\ PreemphOff
    /\ scale = None
    /\ dither = None
    /\ output_type = "float32"
    /\ ValidRates

C3_Polarity ==
    \A k \in Records("polarity") :
        LET x == trace[k].in
            y == trace[k].out
        IN  IF Less(PeakSum(x), Zero)
            THEN Negated(x, y) /\ Leq(Zero, PeakSum(y))
            ELSE y = x

\* A resampled waveform with max + min < 0 has gone through the stage.
C3_Witness ==
    /\ Ran("resample")
    /\ \E k \in Records("polarity") :
           Less(PeakSum(trace[k].in), Zero) /\ trace[k].out # trace[k].in


(***************************************************************************)
(* C4: with scale = 1, no dither, float output and no resampling, the      *)
(* signed maximum of the waveform returned for a non-silent input is 1.    *)
(***************************************************************************)
C4_Setting ==
    /\ Returned
    /\ NonSilent(input)
    /\ scale = Some(One)
    /\ dither = None
    /\ output_type = "float32"
    /\ ~Ran("resample")

C5_Setting(k) ==
    /\ output_type = "int16"
    /\ trace[k].ran
    /\ Within(trace[k].in, I(-1), One)

\* The claim as stated: refuted by the sample -1.0, which becomes -32767.
C5_QuantizeAsStated ==
    \A k \in Records("quantize") :
        C5_Setting(k) =>
            /\ Within(trace[k].out, I(-32768), I(32767))
            /\ \A i \in 1..Len(trace[k].in) :
                  /\ trace[k].in[i] = One => trace[k].out[i] = I(32767)
                  /\ trace[k].in[i] = I(-1) => trace[k].out[i] = I(-32768)

\* C5, as amended: with output_type = int16 and samples in [-1, 1] entering
\* the quantizer, every sample leaving it is an integer in [-32768, 32767],
\* 1.0 is mapped to 32767 and -1.0 to -32767.
C5_QuantizeSymmetric ==
    \A k \in Records("quantize") :
        C5_Setting(k) =>
            /\ Within(trace[k].out, I(-32768), I(32767))
            /\ \A i \in 1..Len(trace[k].in) :
                  /\ trace[k].out[i][2] = 1
                  /\ trace[k].in[i] = One => trace[k].out[i] = I(32767)
                  /\ trace[k].in[i] = I(-1) => trace[k].out[i] = I(-32767)

\* Both boundary samples went through the int16 quantizer.
C5_Witness ==
    \E k \in Records("quantize") :
        /\ C5_Setting(k)
        /\ \E i, j \in 1..Len(trace[k].in) :
              trace[k].in[i] = One /\ trace[k].in[j] = I(-1)

(***************************************************************************)
(* C6: when scale is given and the peak the scaler computes is 0, the call *)
(* ends in a DivisionByZero error and returns nothing.  Stated on calls    *)
(* with valid rates.                                                       *)
(***************************************************************************)
ZeroPeakScaled ==
    \E k \in Records("scale") :
        trace[k].ran /\ SignedMaxIs(trace[k].in, Zero)

C6_ZeroPeakRaises ==
    (ValidRates /\ scale # None /\ ZeroPeakScaled)
        => (pc = "done" => outcome = DivisionByZero)

(***************************************************************************)
(* C7: the caller's array holds the same samples after the call, returned  *)
(* or failed, as before it.  Stated on calls with valid rates and a        *)
(* non-silent input, which the division by a zero peak does not touch.     *)
(***************************************************************************)
C7_InputUnchanged ==
    (pc = "done" /\ ValidRates /\ NonSilent(input)) => caller = input

(***************************************************************************)
(* C8: a source rate <= 0, or a given target rate <= 0, ends the call in   *)
(* an InvalidRate error, also when no resampling would take place.  Stated *)
(* on calls in which the pre-emphasis filter does not fail.                *)
(***************************************************************************)
C8_InvalidRateRaises ==
    (pc = "done" /\ ~ValidRates /\ outcome # BadFilterState)
        => outcome = InvalidRate

C10_DitherBounded ==
    /\ \A k \in Records("dither") :
          ~trace[k].ran => trace[k].out = trace[k].in
    /\ (Returned /\ ValidRates /\ output_type = "float32" /\ dither # None) =>
          \A k \in Records("dither") : \A i \in 1..Len(audio) :
              Leq(AbsQ(Sub(audio[i], trace[k].in[i])), Div(Val(dither), I(2)))

====
